---------------------------- MODULE Spec2Model ----------------------------
(***************************************************************************)
(* Data-parallel training of src/ddp_cifar100_val.py: one process per     *)
(* rank, coordinated only through blocking collectives.                   *)
(*                                                                         *)
(* Five specifications share the variables below.                          *)
(*   Spec      run_training from its first line (76), as written.  Every  *)
(*             rank stops in the validation set-up (lines 92-102): rank 0 *)
(*             raises inside convert_dataset_to_tensor, the other ranks   *)
(*             block in dist.scatter.                                      *)
(*   SpecAvg   one call of average_gradients (lines 68-72) on every rank, *)
(*             from arbitrary local gradients.                             *)
(*   SpecLoop  the epoch loop of run_training (lines 104-149), entered    *)
(*             with a train loader and a validation loader per rank.      *)
(*   SpecTrain the training phase of one epoch (lines 114-129).           *)
(*   SpecBn    the training-mode forward of the SyncBatchNorm layer that  *)
(*             Net applies at line 61, called repeatedly on every rank.   *)
(* Numbers are exact rationals <<numerator, denominator>>.                 *)
(***************************************************************************)
EXTENDS Integers, Sequences, FiniteSets, TLC

(* ------------------------------ bounds -------------------------------- *)
\* world sizes explored for the normalization layer: 1 .. BnWorld
BnWorld == 2
\* a local batch of the layer holds at most this many examples
MaxLocalCount == 2
\* an activation entering the layer is -1 or MaxActivation
MaxActivation == 2
\* training-mode forward calls of the layer on each rank
BnSteps == 2
\* largest world size explored by Spec
SetupWorld == 3
\* largest world size explored by SpecAvg
AvgWorld == 2
\* largest world size explored by SpecLoop
LoopWorld == 2
\* number of trainable parameter tensors of the model
NumParams == 2
\* largest local gradient entry drawn for a parameter
MaxGrad == 2
\* epochs of the loop at line 111 that are explored
MaxEpochs == 2
\* largest number of samples in the training set
MaxTrainLen == 130
\* largest number of validation batches of one rank
MaxValBatches == 2

(* ------------------------- program constants -------------------------- *)
\* DataLoader(..., batch_size=64)
BatchSize == 64
\* torch.zeros(size=(10,)) on the non-source ranks
RecvLen == 10
\* SyncBatchNorm(128)
NumFeatures == 128
\* for _ in range(10)
EpochCount == 10

VARIABLES
    world,            \* dist.get_world_size()
    pc,               \* per rank: the statement the process is at
    err,              \* per rank: the exception that ended the process, "" if none
    seed,             \* per rank: the seed given to torch.manual_seed, -1 before
    val,              \* per rank: shape of the scatter receive buffer
    posted,           \* per rank: the collective call the process is blocked in
    calls,            \* per rank: the collective calls issued so far, in order
    training,         \* per rank: model.training
    param,            \* per rank: value of every parameter
    grad,             \* per rank: param.grad of every parameter (None if undefined)
    momentum_buffer,  \* per rank: SGD momentum buffer of every parameter
    backward_grad,    \* per rank: the gradients as loss.backward() left them
    i_param,          \* per rank: position of the loop of average_gradients
    epoch,            \* per rank: iterations of the loop at line 111 started
    batch,            \* per rank: training batches fetched in this epoch
    num_batches,      \* per rank: len(train_loader)
    val_loader,       \* per rank: sizes of the validation batches
    vbatch,           \* per rank: validation batches fetched in this epoch
    vout,             \* per rank: per validation batch [n, loss_sum, correct]
    val_loss,         \* per rank: line 131/141
    val_acc,          \* per rank: line 132/142/143
    elements_count,   \* per rank: line 133/135
    sync_tensor,      \* per rank: line 144-146
    printed,          \* per rank: the VALIDATION lines printed (line 149)
    trace,            \* per rank: the steps of the current training batch done
    bn_input,         \* per rank: the local batch given to bn1, one feature
    bn_global,        \* per rank: (count, sum, sum_sq) the layer's reduction returned
    global_mean,      \* per rank: mean the layer derived in its last forward
    global_var,       \* per rank: variance it derived in its last forward
    running_mean,     \* per rank: the layer's running inference mean
    running_var,      \* per rank: the layer's running inference variance
    bn_output,        \* per rank: the normalized batch of the last forward
    bn_calls          \* per rank: training-mode forward calls of bn1 completed

setupVars == <<seed, val>>
modelVars == <<training, param, grad, momentum_buffer, backward_grad, i_param>>
loopVars  == <<epoch, batch, num_batches, trace>>
valVars   == <<val_loader, vbatch, vout, val_loss, val_acc, elements_count,
               sync_tensor, printed>>
bnVars    == <<bn_input, bn_global, global_mean, global_var, running_mean,
               running_var, bn_output, bn_calls>>
vars == <<world, pc, err, posted, calls, setupVars, modelVars, loopVars, valVars,
          bnVars>>

Ranks == 0 .. (world - 1)
Params == 1 .. NumParams

(* ------------------------- exact arithmetic --------------------------- *)
RECURSIVE Gcd(_, _)
Gcd(a, b) == IF b = 0 THEN a ELSE Gcd(b, a % b)

Abs(x) == IF x < 0 THEN -x ELSE x

\* the rational n/d in lowest terms, d > 0
Rat(n, d) ==
    LET s == IF d < 0 THEN -1 ELSE 1
        g == Gcd(Abs(n), Abs(d))
    IN  <<(s * n) \div g, (s * d) \div g>>

\* sums are formed over the least common denominator
RAdd(x, y) ==
    LET g == Gcd(x[2], y[2])
    IN  Rat(x[1] * (y[2] \div g) + y[1] * (x[2] \div g), (x[2] \div g) * y[2])
RSub(x, y) == RAdd(x, <<-y[1], y[2]>>)
RLess(x, y) == x[1] * y[2] < y[1] * x[2]
RMul(x, y) == Rat(x[1] * y[1], x[2] * y[2])
RDiv(x, y) == Rat(x[1] * y[2], x[2] * y[1])
RInt(n)    == <<n, 1>>

RECURSIVE RSumOver(_, _)
\* sum of f[r] over the ranks in S
RSumOver(f, S) ==
    IF S = {} THEN RInt(0)
    ELSE LET r == CHOOSE x \in S : TRUE
         IN  RAdd(f[r], RSumOver(f, S \ {r}))

\* Python's None for a tensor-valued attribute
None == <<>>

(* ---------------------------- collectives ----------------------------- *)
\* no collective call pending
NoCall == [op |-> "none", tag |-> "none", shape |-> <<>>, data |-> <<>>]

Call(op, tag, shape, data) == [op |-> op, tag |-> tag, shape |-> shape, data |-> data]

\* what the transport sees of a call: the operation and the tensor's shape
Wire(c) == <<c.op, c.shape>>

(* ------------------- run_training: set-up (76-102) -------------------- *)
\* random_split(dataset, [len(dataset) - 10000, 10000]): the validation set
ValLen == 10000

\* a CIFAR100 sample after ToTensor: channels x height x width
SampleShape == <<3, 32, 32>>

\* the buffer of a rank before line 96/99 runs
NoBuffer == [shape |-> <<-1>>, rows |-> {}]

\* torch.zeros(size=shape): a buffer holding no validation example
Zeros(shape) == [shape |-> shape, rows |-> {}]

\* whether a tensor of shape src can be assigned to a slot of shape dst
\* (copy with broadcasting: trailing dimensions equal or 1 in src, and src
\* has no more dimensions than dst)
CanCopy(src, dst) ==
    /\ Len(src) <= Len(dst)
    /\ \A k \in 1 .. Len(src) :
          LET s == src[Len(src) + 1 - k]
              d == dst[Len(dst) + 1 - k]
          IN  s = d \/ s = 1

\* shape of X in convert_dataset_to_tensor: (len(dataset), dataset[0][0].shape[0])
XShape(n, sample) == <<n, sample[1]>>

\* shape of the slot X[i]
RowShape(shape) == SubSeq(shape, 2, Len(shape))

Raise(r, what) ==
    /\ pc' = [pc EXCEPT ![r] = "raised"]
    /\ err' = [err EXCEPT ![r] = what]

\* the process of a rank has ended, by an exception or by returning from
\* run_training, or hangs for good: it issues no further call
Stopped(q) == pc[q] \in {"raised", "done", "hung"}

\* init_process_group is given no timeout (line 27) and the backend is gloo
\* (line 154): a call whose round a stopped peer never joins is ended by the
\* transport, when it finds the peer's connection closed or when the default
\* timeout of the group expires, with a RuntimeError in the caller.  Until
\* then the caller stays blocked.
CollectiveAbort(r) ==
    /\ posted[r] # NoCall
    /\ \E q \in Ranks : Stopped(q)
    /\ posted' = [posted EXCEPT ![r] = NoCall]
    /\ Raise(r, "RuntimeError")
    /\ UNCHANGED <<world, bnVars, calls, setupVars, modelVars, loopVars, valVars>>

\* line 76
ManualSeed(r) ==
    /\ pc[r] = "manual_seed"
    /\ seed' = [seed EXCEPT ![r] = r]
    /\ pc' = [pc EXCEPT ![r] = "dataset"]
    /\ UNCHANGED <<world, bnVars, err, posted, calls, val, modelVars, loopVars, valVars>>

\* lines 78-88
LoadDataset(r) ==
    /\ pc[r] = "dataset"
    /\ pc' = [pc EXCEPT ![r] = "train_loader"]
    /\ UNCHANGED <<world, bnVars, err, posted, calls, setupVars, modelVars, loopVars, valVars>>

\* lines 90-92
MakeTrainLoader(r) ==
    /\ pc[r] = "train_loader"
    /\ pc' = [pc EXCEPT ![r] = IF r = 0 THEN "convert" ELSE "alloc"]
    /\ UNCHANGED <<world, bnVars, err, posted, calls, setupVars, modelVars, loopVars, valVars>>

\* line 93 on rank 0: X[i], y[i] = dataset[i] at line 21 copies a sample into
\* a row of X.  Lines 94-97 follow only if the copy is possible.
ConvertValidation(r) ==
    /\ pc[r] = "convert"
    /\ IF CanCopy(SampleShape, RowShape(XShape(ValLen, SampleShape)))
       THEN pc' = [pc EXCEPT ![r] = "hstack"] /\ err' = err
       ELSE Raise(r, "RuntimeError")
    /\ UNCHANGED <<world, bnVars, posted, calls, setupVars, modelVars, loopVars, valVars>>

\* line 99 on the other ranks
AllocRecv(r) ==
    /\ pc[r] = "alloc"
    /\ val' = [val EXCEPT ![r] = Zeros(<<RecvLen>>)]
    /\ pc' = [pc EXCEPT ![r] = "scatter"]
    /\ UNCHANGED <<world, bnVars, err, posted, calls, seed, modelVars, loopVars, valVars>>

\* line 100: the call blocks until every rank has issued its scatter
ScatterCall(r) ==
    /\ pc[r] = "scatter"
    /\ posted' = [posted EXCEPT ![r] = Call("scatter", "val", val[r].shape, <<>>)]
    /\ calls' = [calls EXCEPT ![r] = Append(@, <<"scatter", val[r].shape>>)]
    /\ pc' = [pc EXCEPT ![r] = "in_scatter"]
    /\ UNCHANGED <<world, bnVars, err, setupVars, modelVars, loopVars, valVars>>

\* the console of a rank before any VALIDATION line: the epochs a line was
\* printed for, and the last line printed
NoOutput == [epochs |-> <<>>, last |-> [loss |-> None, acc |-> None]]

\* the layer as constructed: no statistics yet, running mean 0 and variance 1
BnFresh ==
    /\ bn_global = [r \in Ranks |-> None]
    /\ global_mean = [r \in Ranks |-> None]
    /\ global_var = [r \in Ranks |-> None]
    /\ running_mean = [r \in Ranks |-> RInt(0)]
    /\ running_var = [r \in Ranks |-> RInt(1)]
    /\ bn_output = [r \in Ranks |-> <<>>]
    /\ bn_calls = [r \in Ranks |-> 0]

InitCommon ==
    /\ BnFresh
    /\ err = [r \in Ranks |-> ""]
    /\ posted = [r \in Ranks |-> NoCall]
    /\ calls = [r \in Ranks |-> <<>>]
    /\ val = [r \in Ranks |-> NoBuffer]
    /\ i_param = [r \in Ranks |-> 1]
    /\ batch = [r \in Ranks |-> 0]
    /\ vbatch = [r \in Ranks |-> 0]
    /\ vout = [r \in Ranks |-> <<>>]
    /\ val_loss = [r \in Ranks |-> RInt(0)]
    /\ val_acc = [r \in Ranks |-> RInt(0)]
    /\ elements_count = [r \in Ranks |-> 0]
    /\ sync_tensor = [r \in Ranks |-> <<>>]
    /\ printed = [r \in Ranks |-> NoOutput]
    /\ trace = [r \in Ranks |-> <<>>]

\* the process of every rank at the first line of run_training
Init ==
    /\ world \in 1 .. SetupWorld
    /\ pc = [r \in Ranks |-> "manual_seed"]
    /\ seed = [r \in Ranks |-> -1]
    /\ training = [r \in Ranks |-> TRUE]
    /\ param = [r \in Ranks |-> [p \in Params |-> None]]
    /\ grad = [r \in Ranks |-> [p \in Params |-> None]]
    /\ momentum_buffer = [r \in Ranks |-> [p \in Params |-> None]]
    /\ backward_grad = [r \in Ranks |-> [p \in Params |-> None]]
    /\ num_batches = [r \in Ranks |-> 0]
    /\ val_loader = [r \in Ranks |-> <<>>]
    /\ epoch = [r \in Ranks |-> 0]
    /\ bn_input = [r \in Ranks |-> <<>>]
    /\ InitCommon

Next ==
    \/ \E r \in Ranks : ManualSeed(r)
    \/ \E r \in Ranks : LoadDataset(r)
    \/ \E r \in Ranks : MakeTrainLoader(r)
    \/ \E r \in Ranks : ConvertValidation(r)
    \/ \E r \in Ranks : AllocRecv(r)
    \/ \E r \in Ranks : ScatterCall(r)
    \/ \E r \in Ranks : CollectiveAbort(r)

Spec == Init /\ [][Next]_vars

(* ------------------- average_gradients (lines 68-72) ------------------ *)
\* the shape of parameter p; different parameters have different shapes,
\* none of them the shape of the metric tensor of line 144.
\* A tensor is represented by one of its entries.
ParamShape(p) == <<NumFeatures, p>>

\* dist.all_reduce(op=SUM): what every rank receives, the entry-wise sum of
\* the tensors the ranks in S supplied
ReduceAvg(data, S) == RDiv(RSumOver(data, S), RInt(Cardinality(S)))
ReduceSum(data, S) == RSumOver(data, S)

\* param.grad.data /= size, with size = float(dist.get_world_size())
AveragedNoDiv(g, size) == g
Averaged(g, size) == RDiv(g, RInt(size))

\* what the loop at line 70 does after the body for parameter i
AfterParamEarly(i) == "optimizer_step"
AfterParam(i) == IF i < NumParams THEN "all_reduce" ELSE "optimizer_step"

\* line 123 / line 69: the call, and size = float(dist.get_world_size())
AvgEnter(r) ==
    /\ pc[r] = "average_gradients"
    /\ i_param' = [i_param EXCEPT ![r] = 1]
    /\ trace' = [trace EXCEPT ![r] = Append(@, "average_gradients")]
    /\ pc' = [pc EXCEPT ![r] = "all_reduce"]
    /\ UNCHANGED <<world, bnVars, err, posted, calls, setupVars, training, param, grad,
                   momentum_buffer, backward_grad, epoch, batch, num_batches, valVars>>

\* line 71 when param.grad is a tensor: the call blocks until every rank
\* has issued its collective
AvgAllReduce(r) ==
    /\ pc[r] = "all_reduce"
    /\ grad[r][i_param[r]] # None
    /\ posted' = [posted EXCEPT ![r] =
          Call("all_reduce", "grad", ParamShape(i_param[r]), grad[r][i_param[r]])]
    /\ calls' = [calls EXCEPT ![r] =
          Append(@, <<"all_reduce", ParamShape(i_param[r])>>)]
    /\ pc' = [pc EXCEPT ![r] = "in_all_reduce"]
    /\ UNCHANGED <<world, bnVars, err, setupVars, modelVars, loopVars, valVars>>

\* line 71 when param.grad is None: None has no attribute data
AvgGradUndefined(r) ==
    /\ pc[r] = "all_reduce"
    /\ grad[r][i_param[r]] = None
    /\ Raise(r, "AttributeError")
    /\ UNCHANGED <<world, bnVars, posted, calls, setupVars, modelVars, loopVars, valVars>>

\* line 72, then line 70: the next parameter, or the return to line 124
AvgDivide(r) ==
    /\ pc[r] = "divide"
    /\ grad' = [grad EXCEPT ![r][i_param[r]] = Averaged(@, world)]
    /\ i_param' = [i_param EXCEPT ![r] = @ + 1]
    /\ pc' = [pc EXCEPT ![r] = AfterParam(i_param[r])]
    /\ UNCHANGED <<world, bnVars, err, posted, calls, setupVars, training, param,
                   momentum_buffer, backward_grad, loopVars, valVars>>

(* ------------------- completion of a collective round ----------------- *)
\* every rank is blocked in a collective call
AllPosted == \A r \in Ranks : posted[r] # NoCall

\* the calls of the round agree in operation and shape
Matching == \A r, q \in Ranks : Wire(posted[r]) = Wire(posted[q])

\* where a rank continues when its blocking call returns
AfterCall(r) ==
    CASE pc[r] = "in_all_reduce"  -> "divide"
      [] pc[r] = "in_forward"     -> "loss"
      [] pc[r] = "in_backward"    -> "average_gradients"
      [] pc[r] = "in_val_forward" -> "val_metrics"
      [] pc[r] = "in_metric"      -> "metric_divide"
      [] pc[r] = "in_bn_reduce"   -> "bn_normalize"
      [] OTHER                    -> pc[r]

\* the sum the round delivers
RoundSum == ReduceSum([r \in Ranks |-> posted[r].data], Ranks)

\* a round of all_reduce on a gradient completes: every rank receives the sum
GradReduced ==
    /\ AllPosted /\ Matching
    /\ \A r \in Ranks : posted[r].tag = "grad"
    /\ grad' = [r \in Ranks |-> [grad[r] EXCEPT ![i_param[r]] = RoundSum]]
    /\ pc' = [r \in Ranks |-> AfterCall(r)]
    /\ posted' = [r \in Ranks |-> NoCall]
    /\ UNCHANGED <<world, bnVars, err, calls, setupVars, training, param, momentum_buffer,
                   backward_grad, i_param, loopVars, valVars>>

\* values a local gradient entry takes in the model
GradVals == { RInt(g) : g \in 1 .. MaxGrad }

\* gradients of one rank in which exactly the parameters in unused have none
GradsWithout(unused) ==
    { g \in [Params -> GradVals \cup {None}] :
        \A p \in Params : (g[p] = None) <=> (p \in unused) }

\* the local gradients average_gradients is called with: a parameter unused
\* in the forward pass has no gradient on any rank
LocalGrads == UNION { [Ranks -> GradsWithout(unused)] : unused \in SUBSET Params }

\* every rank about to call average_gradients after its local backward
InitAvg ==
    /\ world \in 1 .. AvgWorld
    /\ pc = [r \in Ranks |-> "average_gradients"]
    /\ seed = [r \in Ranks |-> r]
    /\ training = [r \in Ranks |-> TRUE]
    /\ param = [r \in Ranks |-> [p \in Params |-> RInt(0)]]
    /\ grad \in LocalGrads
    /\ backward_grad = grad
    /\ momentum_buffer = [r \in Ranks |-> [p \in Params |-> None]]
    /\ num_batches = [r \in Ranks |-> 1]
    /\ val_loader = [r \in Ranks |-> <<>>]
    /\ epoch = [r \in Ranks |-> 0]
    /\ bn_input = [r \in Ranks |-> <<>>]
    /\ InitCommon

NextAvg ==
    \/ \E r \in Ranks : AvgEnter(r)
    \/ \E r \in Ranks : AvgAllReduce(r)
    \/ \E r \in Ranks : AvgGradUndefined(r)
    \/ GradReduced
    \/ \E r \in Ranks : AvgDivide(r)

SpecAvg == InitAvg /\ [][NextAvg]_vars

\* average_gradients has returned on every rank (line 124 is next)
AvgReturned == \A r \in Ranks : pc[r] = "optimizer_step"

(* C1: once average_gradients has returned on every rank, the gradient of  *)
(* every parameter on every rank is the sum over the ranks of the local    *)
(* gradients of that parameter, divided by the world size.                 *)
C1_AveragedGradient ==
    AvgReturned =>
        \A r \in Ranks : \A p \in Params :
            grad[r][p] = RDiv(RSumOver([q \in Ranks |-> backward_grad[q][p]], Ranks),
                              RInt(world))

\* several ranks have returned, and their local gradients of a parameter differed
C1_Witness ==
    /\ AvgReturned
    /\ world >= 2
    /\ \E p \in Params : backward_grad[0][p] # backward_grad[1][p]
    /\ \E p \in Params : grad[0][p] # backward_grad[0][p]

(* C10: a parameter whose gradient is undefined is skipped by              *)
(* average_gradients: the call does not fail, the gradient stays undefined,*)
(* and the other parameters are still reduced and averaged.                *)
C10_UndefinedSkipped ==
    /\ \A r \in Ranks : err[r] # "AttributeError"
    /\ AvgReturned =>
          \A r \in Ranks : \A p \in Params :
              IF backward_grad[r][p] = None
              THEN grad[r][p] = None
              ELSE grad[r][p] =
                     RDiv(RSumOver([q \in Ranks |-> backward_grad[q][p]], Ranks),
                          RInt(world))

(* ------------------ run_training: the epoch loop (104-149) ------------ *)
\* torch.manual_seed(rank); Net(): the weights are drawn from the generator
\* seeded at line 76.  Different seeds give different streams; the draw of
\* the stream of seed s is represented by s.
NetInit(s) == RInt(s)

\* len(DistributedSampler(dataset, size, rank)): the samples of one rank,
\* padded so that every rank has as many
SamplerLen(n, size) == (n + size - 1) \div size

\* len(DataLoader(dataset of n samples, batch_size=64))
LoaderLen(n) == (n + BatchSize - 1) \div BatchSize

RECURSIVE LoaderBatches(_)
\* the sizes of the batches a DataLoader yields for n samples
LoaderBatches(n) ==
    IF n = 0 THEN <<>>
    ELSE IF n <= BatchSize THEN <<n>>
    ELSE <<BatchSize>> \o LoaderBatches(n - BatchSize)

\* sizes of the validation shard of a rank
ShardSizes ==
    { k * BatchSize + e : k \in 0 .. (MaxValBatches - 1), e \in {0, 1} }

\* SGD(lr=0.01, momentum=0.5).step() for one parameter
Lr == Rat(1, 100)
Momentum == Rat(1, 2)
SgdBuffer(buf, g) == IF buf = None THEN g ELSE RAdd(RMul(Momentum, buf), g)
SgdParam(w, buf) == RSub(w, RMul(Lr, buf))

\* shapes of the tensors the synchronized normalization layer reduces:
\* (count, sum, sum of squares) forward, two contraction terms backward
BnForwardShape == <<2 * NumFeatures + 1>>
BnBackwardShape == <<2 * NumFeatures>>

\* the iterations of range(EpochCount) that are explored
Epochs == IF MaxEpochs < EpochCount THEN MaxEpochs ELSE EpochCount

\* line 111: the next epoch, or the end of run_training
EpochStart(r) ==
    /\ pc[r] = "epoch"
    /\ IF epoch[r] < Epochs
       THEN /\ epoch' = [epoch EXCEPT ![r] = @ + 1]
            /\ batch' = [batch EXCEPT ![r] = 0]
            /\ pc' = [pc EXCEPT ![r] = "train_fetch"]
       ELSE /\ pc' = [pc EXCEPT ![r] = "done"]
            /\ UNCHANGED <<epoch, batch>>
    /\ UNCHANGED <<world, bnVars, err, posted, calls, setupVars, modelVars, num_batches,
                   trace, valVars>>

\* where the loop of line 114 leaves to: the validation loop of line 134
AfterTrainingNoValidation == "metric_tensor"
AfterTraining == "val_fetch"

\* line 114: the next training batch, or the end of the training phase
\* and lines 131-133
TrainFetch(r) ==
    /\ pc[r] = "train_fetch"
    /\ IF batch[r] < num_batches[r]
       THEN /\ batch' = [batch EXCEPT ![r] = @ + 1]
            /\ trace' = [trace EXCEPT ![r] = <<>>]
            /\ pc' = [pc EXCEPT ![r] = "zero_grad"]
            /\ UNCHANGED <<vbatch, vout, val_loss, val_acc, elements_count>>
       ELSE /\ val_loss' = [val_loss EXCEPT ![r] = RInt(0)]
            /\ val_acc' = [val_acc EXCEPT ![r] = RInt(0)]
            /\ elements_count' = [elements_count EXCEPT ![r] = 0]
            /\ vbatch' = [vbatch EXCEPT ![r] = 0]
            /\ vout' = [vout EXCEPT ![r] = <<>>]
            /\ pc' = [pc EXCEPT ![r] = AfterTraining]
            /\ UNCHANGED <<batch, trace>>
    /\ UNCHANGED <<world, bnVars, err, posted, calls, setupVars, modelVars, epoch,
                   num_batches, val_loader, sync_tensor, printed>>

\* line 118: optimizer.zero_grad() resets every gradient to None
ZeroGrad(r) ==
    /\ pc[r] = "zero_grad"
    /\ grad' = [grad EXCEPT ![r] = [p \in Params |-> None]]
    /\ trace' = [trace EXCEPT ![r] = Append(@, "zero_grad")]
    /\ pc' = [pc EXCEPT ![r] = "forward"]
    /\ UNCHANGED <<world, bnVars, err, posted, calls, setupVars, training, param,
                   momentum_buffer, backward_grad, i_param, epoch, batch,
                   num_batches, valVars>>

\* Net.forward reaches self.bn1(x) (line 61): in training mode the layer
\* reduces its batch statistics over the ranks, in evaluation mode it does not
BnForward(r, blocked, next) ==
    IF training[r]
    THEN /\ posted' = [posted EXCEPT ![r] =
               Call("all_reduce", "bn_forward", BnForwardShape, RInt(0))]
         /\ calls' = [calls EXCEPT ![r] = Append(@, <<"all_reduce", BnForwardShape>>)]
         /\ pc' = [pc EXCEPT ![r] = blocked]
    ELSE /\ pc' = [pc EXCEPT ![r] = next]
         /\ UNCHANGED <<posted, calls>>

\* line 119
Forward(r) ==
    /\ pc[r] = "forward"
    /\ BnForward(r, "in_forward", "loss")
    /\ trace' = [trace EXCEPT ![r] = Append(@, "forward")]
    /\ UNCHANGED <<world, bnVars, err, setupVars, modelVars, epoch, batch, num_batches, valVars>>

\* a round of the layer's forward reduction completes
ForwardReduced ==
    /\ AllPosted /\ Matching
    /\ \A r \in Ranks : posted[r].tag = "bn_forward"
    /\ pc' = [r \in Ranks |-> AfterCall(r)]
    /\ posted' = [r \in Ranks |-> NoCall]
    /\ UNCHANGED <<world, bnVars, err, calls, setupVars, modelVars, loopVars, valVars>>

\* lines 120-121
Loss(r) ==
    /\ pc[r] = "loss"
    /\ trace' = [trace EXCEPT ![r] = Append(@, "loss")]
    /\ pc' = [pc EXCEPT ![r] = "backward"]
    /\ UNCHANGED <<world, bnVars, err, posted, calls, setupVars, modelVars, epoch, batch,
                   num_batches, valVars>>

\* line 122: backward through the layer reduces the two contraction terms
Backward(r) ==
    /\ pc[r] = "backward"
    /\ posted' = [posted EXCEPT ![r] =
          Call("all_reduce", "bn_backward", BnBackwardShape, RInt(0))]
    /\ calls' = [calls EXCEPT ![r] = Append(@, <<"all_reduce", BnBackwardShape>>)]
    /\ trace' = [trace EXCEPT ![r] = Append(@, "backward")]
    /\ pc' = [pc EXCEPT ![r] = "in_backward"]
    /\ UNCHANGED <<world, bnVars, err, setupVars, modelVars, epoch, batch, num_batches, valVars>>

\* the gradients loss.backward() can leave on the ranks: on each rank one
\* value, taken by every parameter
BackwardGrads == [Ranks -> { [p \in Params |-> g] : g \in GradVals }]

\* the round of the backward reduction completes and loss.backward() returns
\* on every rank, leaving a local gradient in every parameter
BackwardReduced ==
    /\ AllPosted /\ Matching
    /\ \A r \in Ranks : posted[r].tag = "bn_backward"
    /\ \E g \in BackwardGrads :
          /\ grad' = g
          /\ backward_grad' = g
    /\ pc' = [r \in Ranks |-> AfterCall(r)]
    /\ posted' = [r \in Ranks |-> NoCall]
    /\ UNCHANGED <<world, bnVars, err, calls, setupVars, training, param, momentum_buffer,
                   i_param, loopVars, valVars>>

\* line 124
OptimizerStep(r) ==
    /\ pc[r] = "optimizer_step"
    /\ LET buf == [p \in Params |->
                     IF grad[r][p] = None THEN momentum_buffer[r][p]
                     ELSE SgdBuffer(momentum_buffer[r][p], grad[r][p])]
       IN  /\ momentum_buffer' = [momentum_buffer EXCEPT ![r] = buf]
           /\ param' = [param EXCEPT ![r] =
                 [p \in Params |->
                     IF grad[r][p] = None THEN param[r][p]
                     ELSE SgdParam(param[r][p], buf[p])]]
    /\ trace' = [trace EXCEPT ![r] = Append(@, "optimizer_step")]
    /\ pc' = [pc EXCEPT ![r] = "train_report"]
    /\ UNCHANGED <<world, bnVars, err, posted, calls, setupVars, training, grad,
                   backward_grad, i_param, epoch, batch, num_batches, valVars>>

\* lines 126-129
TrainReport(r) ==
    /\ pc[r] = "train_report"
    /\ pc' = [pc EXCEPT ![r] = "train_fetch"]
    /\ UNCHANGED <<world, bnVars, err, posted, calls, setupVars, modelVars, loopVars, valVars>>

\* line 134: the next validation batch, or the end of the validation loop
ValFetch(r) ==
    /\ pc[r] = "val_fetch"
    /\ IF vbatch[r] < Len(val_loader[r])
       THEN /\ vbatch' = [vbatch EXCEPT ![r] = @ + 1]
            /\ pc' = [pc EXCEPT ![r] = "val_forward"]
       ELSE /\ pc' = [pc EXCEPT ![r] = "val_acc_divide"]
            /\ UNCHANGED vbatch
    /\ UNCHANGED <<world, bnVars, err, posted, calls, setupVars, modelVars, loopVars,
                   val_loader, vout, val_loss, val_acc, elements_count,
                   sync_tensor, printed>>

\* lines 135-139: count the batch, then the forward pass of the model
ValForward(r) ==
    /\ pc[r] = "val_forward"
    /\ elements_count' = [elements_count EXCEPT ![r] = @ + val_loader[r][vbatch[r]]]
    /\ BnForward(r, "in_val_forward", "val_metrics")
    /\ UNCHANGED <<world, bnVars, err, setupVars, modelVars, loopVars, val_loader, vbatch,
                   vout, val_loss, val_acc, sync_tensor, printed>>

\* what the model can yield on a validation batch of n examples: the mean
\* cross entropy of the batch and the number of correct predictions
ValOutcomes(n) ==
    { [n |-> n, mean |-> RInt(1), correct |-> n],
      [n |-> n, mean |-> RInt(2), correct |-> 0] }

\* where the body of the validation loop ends: back at line 134
AfterValBatchStepping == "optimizer_step"
AfterValBatch == "val_fetch"

\* lines 140-142: cross_entropy is the mean over the batch
ValMetrics(r) ==
    /\ pc[r] = "val_metrics"
    /\ \E o \in ValOutcomes(val_loader[r][vbatch[r]]) :
          /\ val_loss' = [val_loss EXCEPT ![r] = RAdd(@, o.mean)]
          /\ val_acc' = [val_acc EXCEPT ![r] = RAdd(@, RInt(o.correct))]
          /\ vout' = [vout EXCEPT ![r] = Append(@, o)]
    /\ pc' = [pc EXCEPT ![r] = AfterValBatch]
    /\ UNCHANGED <<world, bnVars, err, posted, calls, setupVars, modelVars, loopVars,
                   val_loader, vbatch, elements_count, sync_tensor, printed>>

\* line 143
ValAccDivide(r) ==
    /\ pc[r] = "val_acc_divide"
    /\ IF elements_count[r] = 0
       THEN Raise(r, "ZeroDivisionError") /\ UNCHANGED val_acc
       ELSE /\ val_acc' = [val_acc EXCEPT ![r] = RDiv(@, RInt(elements_count[r]))]
            /\ pc' = [pc EXCEPT ![r] = "metric_tensor"]
            /\ UNCHANGED err
    /\ UNCHANGED <<world, bnVars, posted, calls, setupVars, modelVars, loopVars,
                   val_loader, vbatch, vout, val_loss, elements_count,
                   sync_tensor, printed>>

\* shape of torch.tensor([val_loss, val_acc])
MetricShape == <<2>>

\* lines 144-145: the call blocks until every rank has issued its collective
MetricAllReduce(r) ==
    /\ pc[r] = "metric_tensor"
    /\ sync_tensor' = [sync_tensor EXCEPT ![r] = <<val_loss[r], val_acc[r]>>]
    /\ posted' = [posted EXCEPT ![r] =
          Call("all_reduce", "metric", MetricShape, <<val_loss[r], val_acc[r]>>)]
    /\ calls' = [calls EXCEPT ![r] = Append(@, <<"all_reduce", MetricShape>>)]
    /\ pc' = [pc EXCEPT ![r] = "in_metric"]
    /\ UNCHANGED <<world, bnVars, err, setupVars, modelVars, loopVars, val_loader, vbatch,
                   vout, val_loss, val_acc, elements_count, printed>>

\* the round of the metric reduction completes: every rank receives the sums
MetricReduced ==
    /\ AllPosted /\ Matching
    /\ \A r \in Ranks : posted[r].tag = "metric"
    /\ sync_tensor' =
          [r \in Ranks |->
              << ReduceSum([q \in Ranks |-> posted[q].data[1]], Ranks),
                 ReduceSum([q \in Ranks |-> posted[q].data[2]], Ranks) >>]
    /\ pc' = [r \in Ranks |-> AfterCall(r)]
    /\ posted' = [r \in Ranks |-> NoCall]
    /\ UNCHANGED <<world, bnVars, err, calls, setupVars, modelVars, loopVars, val_loader,
                   vbatch, vout, val_loss, val_acc, elements_count, printed>>

\* line 146
MetricDivide(r) ==
    /\ pc[r] = "metric_divide"
    /\ sync_tensor' = [sync_tensor EXCEPT ![r] =
          <<Averaged(@[1], world), Averaged(@[2], world)>>]
    /\ pc' = [pc EXCEPT ![r] = "report"]
    /\ UNCHANGED <<world, bnVars, err, posted, calls, setupVars, modelVars, loopVars,
                   val_loader, vbatch, vout, val_loss, val_acc, elements_count,
                   printed>>

\* the VALIDATION line of line 149: loss is epoch_loss / num_batches
ValidationLine(r) ==
    [loss |-> RDiv(sync_tensor[r][1], RInt(num_batches[r])),
     acc |-> sync_tensor[r][2]]

\* line 147: the ranks that print the VALIDATION line
PrintsOnAnyRank(r) == TRUE
Prints(r) == r = 0

\* lines 147-149, then back to line 111
Report(r) ==
    /\ pc[r] = "report"
    /\ printed' = [printed EXCEPT ![r] =
          IF Prints(r)
          THEN [epochs |-> Append(@.epochs, epoch[r]), last |-> ValidationLine(r)]
          ELSE @]
    /\ pc' = [pc EXCEPT ![r] = "epoch"]
    /\ UNCHANGED <<world, bnVars, err, posted, calls, setupVars, modelVars, loopVars,
                   val_loader, vbatch, vout, val_loss, val_acc, elements_count,
                   sync_tensor>>

\* every rank is blocked in a call, and the calls of the round differ in
\* operation or shape: the transport cannot complete the round.  Each rank
\* either stays blocked for ever or fails in the transport.
CollectiveMismatch ==
    /\ AllPosted /\ ~Matching
    /\ \E outcome \in [Ranks -> {"hung", "raised"}] :
          /\ pc' = outcome
          /\ err' = [r \in Ranks |->
                       IF outcome[r] = "raised" THEN "RuntimeError" ELSE err[r]]
    /\ posted' = [r \in Ranks |-> NoCall]
    /\ UNCHANGED <<world, bnVars, calls, setupVars, modelVars, loopVars, valVars>>

\* every rank at line 111 for the first time: the model is built from the
\* generator seeded with the rank (lines 76, 104), the optimizer holds no
\* momentum yet, the loaders are in place
InitLoop ==
    /\ world \in 1 .. LoopWorld
    /\ pc = [r \in Ranks |-> "epoch"]
    /\ seed = [r \in Ranks |-> r]
    /\ training = [r \in Ranks |-> TRUE]
    /\ param = [r \in Ranks |-> [p \in Params |-> NetInit(seed[r])]]
    /\ grad = [r \in Ranks |-> [p \in Params |-> None]]
    /\ backward_grad = [r \in Ranks |-> [p \in Params |-> None]]
    /\ momentum_buffer = [r \in Ranks |-> [p \in Params |-> None]]
    /\ \E n \in 1 .. MaxTrainLen :
          num_batches = [r \in Ranks |-> LoaderLen(SamplerLen(n, world))]
    /\ val_loader \in [Ranks -> { LoaderBatches(m) : m \in ShardSizes }]
    /\ epoch = [r \in Ranks |-> 0]
    /\ bn_input = [r \in Ranks |-> <<>>]
    /\ InitCommon

NextLoop ==
    \/ \E r \in Ranks : EpochStart(r)
    \/ \E r \in Ranks : TrainFetch(r)
    \/ \E r \in Ranks : ZeroGrad(r)
    \/ \E r \in Ranks : Forward(r)
    \/ ForwardReduced
    \/ \E r \in Ranks : Loss(r)
    \/ \E r \in Ranks : Backward(r)
    \/ BackwardReduced
    \/ \E r \in Ranks : AvgEnter(r)
    \/ \E r \in Ranks : AvgAllReduce(r)
    \/ GradReduced
    \/ \E r \in Ranks : AvgDivide(r)
    \/ \E r \in Ranks : OptimizerStep(r)
    \/ \E r \in Ranks : TrainReport(r)
    \/ \E r \in Ranks : ValFetch(r)
    \/ \E r \in Ranks : ValForward(r)
    \/ \E r \in Ranks : ValMetrics(r)
    \/ \E r \in Ranks : ValAccDivide(r)
    \/ \E r \in Ranks : MetricAllReduce(r)
    \/ MetricReduced
    \/ \E r \in Ranks : MetricDivide(r)
    \/ \E r \in Ranks : Report(r)
    \/ CollectiveMismatch
    \/ \E r \in Ranks : CollectiveAbort(r)

SpecLoop == InitLoop /\ [][NextLoop]_vars

\* every rank at line 114 in the first epoch, before its first training batch
InitTrain ==
    /\ world \in 1 .. LoopWorld
    /\ pc = [r \in Ranks |-> "train_fetch"]
    /\ seed = [r \in Ranks |-> r]
    /\ training = [r \in Ranks |-> TRUE]
    /\ param = [r \in Ranks |-> [p \in Params |-> NetInit(seed[r])]]
    /\ grad = [r \in Ranks |-> [p \in Params |-> None]]
    /\ backward_grad = [r \in Ranks |-> [p \in Params |-> None]]
    /\ momentum_buffer = [r \in Ranks |-> [p \in Params |-> None]]
    /\ \E n \in 1 .. MaxTrainLen :
          num_batches = [r \in Ranks |-> LoaderLen(SamplerLen(n, world))]
    /\ val_loader = [r \in Ranks |-> <<>>]
    /\ epoch = [r \in Ranks |-> 1]
    /\ bn_input = [r \in Ranks |-> <<>>]
    /\ InitCommon

NextTrain ==
    \/ \E r \in Ranks : TrainFetch(r)
    \/ \E r \in Ranks : ZeroGrad(r)
    \/ \E r \in Ranks : Forward(r)
    \/ ForwardReduced
    \/ \E r \in Ranks : Loss(r)
    \/ \E r \in Ranks : Backward(r)
    \/ BackwardReduced
    \/ \E r \in Ranks : AvgEnter(r)
    \/ \E r \in Ranks : AvgAllReduce(r)
    \/ GradReduced
    \/ \E r \in Ranks : AvgDivide(r)
    \/ \E r \in Ranks : OptimizerStep(r)
    \/ \E r \in Ranks : TrainReport(r)

SpecTrain == InitTrain /\ [][NextTrain]_vars

(* ------------- SyncBatchNorm.forward, training mode (line 61) --------- *)
\* momentum of the running statistics, eps of the normalization and the
\* floor of the variance
BnMomentum == Rat(1, 10)
BnEps == Rat(1, 100000)
BnVarFloor == Rat(1, 100000)

RECURSIVE SeqSum(_)
SeqSum(x) == IF x = <<>> THEN 0 ELSE Head(x) + SeqSum(Tail(x))

RECURSIVE SeqSumSq(_)
SeqSumSq(x) == IF x = <<>> THEN 0 ELSE Head(x) * Head(x) + SeqSumSq(Tail(x))

\* step 1: (local_count, local_sum, local_sum_sq) of a local batch
BnLocalStats(x) == <<RInt(Len(x)), RInt(SeqSum(x)), RInt(SeqSumSq(x))>>

\* step 3: global_mean = global_sum / global_count
BnMean(g) == RDiv(g[2], g[1])

\* step 3: global_var = global_sum_sq / global_count - global_mean^2, clamped
BnVar(g) ==
    LET v == RSub(RDiv(g[3], g[1]), RMul(BnMean(g), BnMean(g)))
    IN  IF RLess(v, BnVarFloor) THEN BnVarFloor ELSE v

\* step 4: (x - global_mean) / sqrt(global_var + eps), kept as the centered
\* value and the square of the divisor
BnNormalized(x, mean, var) ==
    [k \in 1 .. Len(x) |->
        [centered |-> RSub(RInt(x[k]), mean), scale2 |-> RAdd(var, BnEps)]]

\* step 5: exponential moving average
BnRunning(old, new) ==
    RAdd(RMul(RSub(RInt(1), BnMomentum), old), RMul(BnMomentum, new))

\* where forward returns to: the next call of the layer, or the end
AfterBnForward(n) == IF n < BnSteps THEN "bn_forward" ELSE "bn_returned"

\* steps 1-2: the local statistics, and the call of reduce_sum on them
BnReduceCall(r) ==
    /\ pc[r] = "bn_forward"
    /\ posted' = [posted EXCEPT ![r] =
          Call("all_reduce", "bn_stats", BnForwardShape, BnLocalStats(bn_input[r]))]
    /\ calls' = [calls EXCEPT ![r] = Append(@, <<"all_reduce", BnForwardShape>>)]
    /\ pc' = [pc EXCEPT ![r] = "in_bn_reduce"]
    /\ UNCHANGED <<world, bnVars, err, setupVars, modelVars, loopVars, valVars>>

\* the round of reduce_sum completes: every rank receives the three sums
BnStatsReduced ==
    /\ AllPosted /\ Matching
    /\ \A r \in Ranks : posted[r].tag = "bn_stats"
    /\ bn_global' =
          [r \in Ranks |->
              [i \in 1 .. 3 |-> ReduceSum([q \in Ranks |-> posted[q].data[i]], Ranks)]]
    /\ pc' = [r \in Ranks |-> AfterCall(r)]
    /\ posted' = [r \in Ranks |-> NoCall]
    /\ UNCHANGED <<world, err, calls, setupVars, modelVars, loopVars, valVars,
                   bn_input, global_mean, global_var, running_mean, running_var,
                   bn_output, bn_calls>>

\* steps 3-5; an empty global batch fails before the division
BnNormalize(r) ==
    /\ pc[r] = "bn_normalize"
    /\ IF bn_global[r][1] = RInt(0)
       THEN /\ Raise(r, "ValueError")
            /\ UNCHANGED <<global_mean, global_var, running_mean, running_var,
                           bn_output, bn_calls>>
       ELSE /\ global_mean' = [global_mean EXCEPT ![r] = BnMean(bn_global[r])]
            /\ global_var' = [global_var EXCEPT ![r] = BnVar(bn_global[r])]
            /\ bn_output' = [bn_output EXCEPT ![r] =
                  BnNormalized(bn_input[r], BnMean(bn_global[r]), BnVar(bn_global[r]))]
            /\ running_mean' = [running_mean EXCEPT ![r] =
                  BnRunning(@, BnMean(bn_global[r]))]
            /\ running_var' = [running_var EXCEPT ![r] =
                  BnRunning(@, BnVar(bn_global[r]))]
            /\ bn_calls' = [bn_calls EXCEPT ![r] = @ + 1]
            /\ pc' = [pc EXCEPT ![r] = AfterBnForward(bn_calls[r] + 1)]
            /\ UNCHANGED err
    /\ UNCHANGED <<world, posted, calls, setupVars, modelVars, loopVars, valVars,
                   bn_input, bn_global>>

\* activations of one feature, and the local batches a rank can hold
Activations == {-1, MaxActivation}
BnBatches == UNION { [1 .. n -> Activations] : n \in 0 .. MaxLocalCount }

\* every rank about to call the layer in training mode; each call of a rank
\* is given the same local batch
InitBn ==
    /\ world \in 1 .. BnWorld
    /\ pc = [r \in Ranks |-> "bn_forward"]
    /\ seed = [r \in Ranks |-> r]
    /\ training = [r \in Ranks |-> TRUE]
    /\ param = [r \in Ranks |-> [p \in Params |-> NetInit(seed[r])]]
    /\ grad = [r \in Ranks |-> [p \in Params |-> None]]
    /\ backward_grad = [r \in Ranks |-> [p \in Params |-> None]]
    /\ momentum_buffer = [r \in Ranks |-> [p \in Params |-> None]]
    /\ num_batches = [r \in Ranks |-> 0]
    /\ val_loader = [r \in Ranks |-> <<>>]
    /\ epoch = [r \in Ranks |-> 0]
    /\ bn_input \in [Ranks -> BnBatches]
    /\ InitCommon

NextBn ==
    \/ \E r \in Ranks : BnReduceCall(r)
    \/ BnStatsReduced
    \/ \E r \in Ranks : BnNormalize(r)

SpecBn == InitBn /\ [][NextBn]_vars

(* ============================ the claims ============================== *)
\* no rank of the set-up can take another step: it has raised, or it is
\* blocked in its scatter call
SetupOver == \A r \in Ranks : pc[r] \in {"raised", "in_scatter"}

C3_ShardsPartition ==
    SetupOver =>
        /\ UNION { val[r].rows : r \in Ranks } = 1 .. ValLen
        /\ \A r, q \in Ranks : r # q => val[r].rows \cap val[q].rows = {}
        /\ \A r \in Ranks : \E a, b \in 0 .. ValLen : val[r].rows = (a + 1) .. b
        /\ \A r, q \in Ranks :
              Cardinality(val[r].rows) - Cardinality(val[q].rows) \in {-1, 0, 1}

(* C4: at the scatter call every rank, rank 0 included, issues the call    *)
(* with a receive buffer shaped like the shard destined for it (rows of    *)
(* the shard by columns of the validation tensor), and every rank receives *)
(* one shard.                                                              *)
C4_ScatterShapes ==
    /\ \A r \in Ranks :
          pc[r] = "in_scatter" =>
              /\ Len(val[r].shape) = 2
              /\ val[r].shape[1] \in { ValLen \div world,
                                       (ValLen \div world) + 1,
                                       (ValLen \div world) + (ValLen % world) }
              /\ val[r].shape[2] = XShape(ValLen, SampleShape)[2] + 1
    /\ SetupOver => \A r \in Ranks : pc[r] = "in_scatter" /\ val[r].rows # {}

RECURSIVE LossSum(_)
LossSum(outs) ==
    IF outs = <<>> THEN RInt(0)
    ELSE RAdd(RMul(Head(outs).mean, RInt(Head(outs).n)), LossSum(Tail(outs)))

RECURSIVE CorrectSum(_)
CorrectSum(outs) ==
    IF outs = <<>> THEN 0 ELSE Head(outs).correct + CorrectSum(Tail(outs))

RECURSIVE ExampleSum(_)
ExampleSum(outs) ==
    IF outs = <<>> THEN 0 ELSE Head(outs).n + ExampleSum(Tail(outs))

RECURSIVE IntSumOver(_, _)
IntSumOver(f, S) ==
    IF S = {} THEN 0
    ELSE LET r == CHOOSE x \in S : TRUE IN f[r] + IntSumOver(f, S \ {r})

TotalExamples == IntSumOver([r \in Ranks |-> ExampleSum(vout[r])], Ranks)
GlobalLoss ==
    RDiv(RSumOver([r \in Ranks |-> LossSum(vout[r])], Ranks), RInt(TotalExamples))
GlobalAcc ==
    Rat(IntSumOver([r \in Ranks |-> CorrectSum(vout[r])], Ranks), TotalExamples)

\* rank 0 has just printed the VALIDATION line of an epoch
JustReported == pc[0] = "epoch" /\ epoch[0] >= 1

InValidation(r) ==
    pc[r] \in {"val_fetch", "val_forward", "in_val_forward", "val_metrics"}

C7_SameCallSequence ==
    /\ \A r, q \in Ranks :
          \A k \in 1 .. Len(calls[r]) :
              k <= Len(calls[q]) => calls[r][k] = calls[q][k]
    /\ SetupOver => \A r, q \in Ranks : Len(calls[r]) = Len(calls[q])

StepOrder ==
    <<"zero_grad", "forward", "loss", "backward", "average_gradients",
      "optimizer_step">>

IsPrefix(s, t) == Len(s) <= Len(t) /\ s = SubSeq(t, 1, Len(s))

AveragedOverRanks(p) ==
    RDiv(RSumOver([q \in Ranks |-> backward_grad[q][p]], Ranks), RInt(world))

(* C8: the steps of a training batch occur in the order zero_grad,         *)
(* forward, loss, backward, average_gradients, optimizer step; the         *)
(* optimizer step runs only when every parameter's gradient has been       *)
(* reduced and divided, and average_gradients starts only after backward.  *)
C8_StepOrder ==
    \A r \in Ranks :
        /\ IsPrefix(trace[r], StepOrder)
        /\ pc[r] = "optimizer_step" =>
              /\ trace[r] = SubSeq(StepOrder, 1, 5)
              /\ \A p \in Params : grad[r][p] = AveragedOverRanks(p)
        /\ pc[r] = "train_report" =>
              /\ trace[r] = StepOrder
              /\ \A p \in Params : grad[r][p] = AveragedOverRanks(p)
        /\ pc[r] = "average_gradients" =>
              /\ trace[r] = SubSeq(StepOrder, 1, 4)
              /\ grad[r] = backward_grad[r]
              /\ \A p \in Params : grad[r][p] # None
        /\ pc[r] \in {"all_reduce", "in_all_reduce", "divide"} =>
              trace[r] = SubSeq(StepOrder, 1, 5)

\* a rank has taken the optimizer step of its second batch, in which the local
\* gradients of two ranks differed
C8_Witness ==
    /\ world >= 2
    /\ pc[1] = "train_report"
    /\ batch[1] = 2
    /\ backward_grad[0] # backward_grad[1]

(* C9: every rank reaches the end of run_training after the configured     *)
(* number of epochs; the run stops nowhere else, so no rank is left        *)
(* blocked in a collective.                                                *)
C9_RunsToCompletion ==
    (~ENABLED Next) => \A r \in Ranks : pc[r] = "done" /\ epoch[r] = EpochCount

RECURSIVE BatchesFrom(_)
\* the local batches of the ranks k, k+1, ... concatenated
BatchesFrom(k) == IF k >= world THEN <<>> ELSE bn_input[k] \o BatchesFrom(k + 1)

GlobalBatch == BatchesFrom(0)

RECURSIVE SqDevSum(_, _)
\* sum of (x - m)^2 over the batch
SqDevSum(x, m) ==
    IF x = <<>> THEN RInt(0)
    ELSE RAdd(RMul(RSub(RInt(Head(x)), m), RSub(RInt(Head(x)), m)),
              SqDevSum(Tail(x), m))

\* mean and (biased, floored) variance of the concatenated batch
ConcatMean == Rat(SeqSum(GlobalBatch), Len(GlobalBatch))
ConcatVar ==
    LET v == RDiv(SqDevSum(GlobalBatch, ConcatMean), RInt(Len(GlobalBatch)))
    IN  IF RLess(v, BnVarFloor) THEN BnVarFloor ELSE v

RECURSIVE MovingAverage(_, _, _)
\* the running statistic after n updates towards v
MovingAverage(n, start, v) ==
    IF n = 0 THEN start
    ELSE RAdd(RMul(Rat(9, 10), MovingAverage(n - 1, start, v)), RMul(Rat(1, 10), v))

(* C11: after the reduce_sum of a training-mode forward of the layer every *)
(* rank holds the same global_count, global_sum and global_sum_sq, each    *)
(* equal to that quantity of the concatenation of the ranks' local         *)
(* batches; the mean and variance derived from them, and the running       *)
(* statistics updated from them, are the same on every rank.               *)
C11_GlobalStatistics ==
    LET all == GlobalBatch
        mean == ConcatMean
        var == ConcatVar
    IN  \A r \in Ranks :
            /\ bn_global[r] # None =>
                  bn_global[r] =
                      <<RInt(Len(all)), RInt(SeqSum(all)), RInt(SeqSumSq(all))>>
            /\ bn_calls[r] >= 1 =>
                  /\ global_mean[r] = mean
                  /\ global_var[r] = var
                  /\ running_mean[r] = MovingAverage(bn_calls[r], RInt(0), mean)
                  /\ running_var[r] = MovingAverage(bn_calls[r], RInt(1), var)
                  /\ \A q \in Ranks :
                        bn_calls[q] = bn_calls[r] =>
                            /\ global_mean[q] = global_mean[r]
                            /\ global_var[q] = global_var[r]
                            /\ running_mean[q] = running_mean[r]
                            /\ running_var[q] = running_var[r]

\* two ranks with local batches of different sizes and contents have each
\* completed two forward calls, and the variance is above its floor
C11_Witness ==
    /\ world >= 2
    /\ Len(bn_input[0]) = 1 /\ Len(bn_input[1]) = 2
    /\ bn_input[1][1] # bn_input[1][2]
    /\ bn_calls[0] = 2 /\ bn_calls[1] = 2
    /\ global_var[1] # BnVarFloor
    /\ running_mean[1] # RInt(0)

(* C12: a collective is a barrier without timeout: when a rank never       *)
(* issues the matching call of a round, every rank that issued the call    *)
(* of that round stays blocked in it for ever and gets no result of the    *)
(* round.                                                                  *)
C12_BlockedForever ==
    [][ \A r \in Ranks :
            (posted[r] # NoCall /\ \E q \in Ranks : Stopped(q))
                => (posted'[r] = posted[r] /\ pc'[r] = pc[r]) ]_vars

TrainPhase ==
    {"train_fetch", "zero_grad", "forward", "in_forward", "loss", "backward",
     "in_backward", "average_gradients", "all_reduce", "in_all_reduce", "divide",
     "optimizer_step", "train_report"}

ValPhase == {"val_fetch", "val_forward", "in_val_forward", "val_metrics",
             "val_acc_divide"}

SyncPhase == {"metric_tensor", "in_metric", "metric_divide", "report"}

\* metric all-reduces the rank has issued so far
MetricCalls(r) ==
    Cardinality({ k \in 1 .. Len(calls[r]) : calls[r][k] = <<"all_reduce", MetricShape>> })

\* the metric all-reduce of epoch e has returned on rank q
MetricCompleted(q, e) ==
    \/ epoch[q] > e
    \/ epoch[q] = e /\ pc[q] \in {"metric_divide", "report", "epoch", "done"}

\* the rank is in a training batch
InTrainBatch(r) == pc[r] \in TrainPhase \ {"train_fetch"}

LocalSums ==
    << RSumOver([q \in Ranks |-> val_loss[q]], Ranks),
       RSumOver([q \in Ranks |-> val_acc[q]], Ranks) >>

\* the VALIDATION lines rank 0 has printed when it is in epoch e at pc
LinesDue == IF pc[0] \in {"epoch", "done"} THEN epoch[0] ELSE epoch[0] - 1

(* C14: after the metric all-reduce of an epoch every rank holds the same  *)
(* aggregated validation values; the VALIDATION line is printed exactly    *)
(* once per epoch, by rank 0, and no other rank ever prints one.           *)
C14_SameValuesOnePrinter ==
    /\ \A r \in Ranks :
          /\ pc[r] = "metric_divide" => sync_tensor[r] = LocalSums
          /\ pc[r] = "report" =>
                sync_tensor[r] = << RDiv(LocalSums[1], RInt(world)),
                                    RDiv(LocalSums[2], RInt(world)) >>
          /\ \A q \in Ranks :
                (epoch[q] = epoch[r] /\ pc[q] = pc[r]
                    /\ pc[r] \in {"metric_divide", "report", "epoch", "done"})
                => sync_tensor[q] = sync_tensor[r]
          /\ r # 0 => printed[r] = NoOutput
    /\ printed[0].epochs = [k \in 1 .. LinesDue |-> k]

\* two ranks with different local validation values have finished their
\* second epoch, and rank 0 has printed a line in each
C14_Witness ==
    /\ world >= 2
    /\ pc[0] = "epoch" /\ pc[1] = "epoch"
    /\ epoch[0] = 2 /\ epoch[1] = 2
    /\ val_loss[0] # val_loss[1]
    /\ val_acc[0] # val_acc[1]
    /\ printed[0].epochs = <<1, 2>>

\* the rank has taken the optimizer step of the last training batch of its
\* epoch and has not yet started the next epoch
TrainingOver(r) == batch[r] = num_batches[r] /\ trace[r] = StepOrder

\* the collective calls a forward pass and the metric aggregation issue
ForwardOnlyCalls == { <<"all_reduce", BnForwardShape>>, <<"all_reduce", MetricShape>> }

(* C15: from the last optimizer step of an epoch's training phase until    *)
(* the next epoch starts, a rank runs no backward, no gradient             *)
(* synchronization and no optimizer step: validation and the metric        *)
(* all-reduce leave its parameters, gradients and optimizer state          *)
(* unchanged.                                                              *)
C15_ValidationForwardOnly ==
    [][ \A r \in Ranks :
            TrainingOver(r) =>
                /\ param'[r] = param[r]
                /\ grad'[r] = grad[r]
                /\ momentum_buffer'[r] = momentum_buffer[r]
                /\ trace'[r] = trace[r]
                /\ calls'[r] # calls[r] =>
                      /\ Len(calls'[r]) = Len(calls[r]) + 1
                      /\ calls'[r][Len(calls'[r])] \in ForwardOnlyCalls ]_vars

\* a rank has been through a training batch and two validation batches of
\* its first epoch and the metric all-reduce, and holds averaged gradients
\* and a momentum buffer
C15_Witness ==
    /\ world >= 2
    /\ pc[1] = "report" /\ epoch[1] = 1
    /\ TrainingOver(1)
    /\ vbatch[1] = 2
    /\ \A p \in Params : grad[1][p] # None /\ momentum_buffer[1][p] # None
    /\ param[1] # [p \in Params |-> NetInit(seed[1])]

=============================================================================
